---- MODULE Spec2Model ----
(***************************************************************************)
(* Model of streamfx::nvidia::vfx::superresolution                         *)
(* (source/nvidia/vfx/nvidia-vfx-superresolution.cpp).                     *)
(*                                                                         *)
(* Numbers.  Scale factors are floats in the source; here a scale is the   *)
(* integer number of twelfths (4/3 = 16, 1.5 = 18, 2 = 24, 3 = 36,         *)
(* 4 = 48), so that every comparison the code makes is an exact integer    *)
(* comparison.  Strength is kept in hundredths (0.0 = 0, 1.0 = 100).       *)
(* Sizes are pairs <<width, height>> of naturals.                          *)
(***************************************************************************)
EXTENDS Integers, Sequences, FiniteSets, TLC

(***************************************************************************)
(* Bounds of the model: how many of the listed arguments are tried.        *)
(***************************************************************************)
NumSizes == 2
NumScaleArgs == 4
(* how many engine calls report non-success in one behaviour *)
MaxFailures == 1

ScaleDen == 12
StrengthDen == 100
(* std::numeric_limits<float>::max(), as a distance larger than any other *)
FloatMax == 1000000

Null == <<>>

Min2(a, b) == IF a < b THEN a ELSE b

Abs(x) == IF x < 0 THEN -x ELSE x

(* std::clamp *)
Clamp(v, lo, hi) == IF v < lo THEN lo ELSE IF hi < v THEN hi ELSE v

(* std::lround of the non-negative quotient n/d: half away from zero *)
LRound(n, d) == (2 * n + d) \div (2 * d)

(* ::streamfx::util::math::is_close<float>(target, value, deltaNum/deltaDen)
   for target = tn/td and value = vn/vd *)
is_close(tn, td, vn, vd, deltaNum, deltaDen) ==
    Abs(tn * vd - vn * td) * deltaDen <= deltaNum * td * vd

(* a list whose last factor is 3.5 instead of 4 *)
supported_scale_factors_ends_with_3_5 == <<16, 18, 24, 36, 42>>

supported_scale_factors == <<16, 18, 24, 36, 48>>

(* ScanClosest with `>=` for `>`: a later entry at the same distance wins *)
RECURSIVE ScanClosest_later_wins(_, _, _)
ScanClosest_later_wins(factor, idx, minimal) ==
    IF idx > Len(supported_scale_factors) THEN minimal
    ELSE LET value == Abs(supported_scale_factors[idx] - factor)
         IN  ScanClosest_later_wins(factor, idx + 1,
                                    IF minimal[2] >= value THEN <<idx, value>> ELSE minimal)

(* the loop of find_closest_scale_factor_index: minimal = <<idx, distance>> *)
RECURSIVE ScanClosest(_, _, _)
ScanClosest(factor, idx, minimal) ==
    IF idx > Len(supported_scale_factors) THEN minimal
    ELSE LET value == Abs(supported_scale_factors[idx] - factor)
         IN  ScanClosest(factor, idx + 1,
                         IF minimal[2] > value THEN <<idx, value>> ELSE minimal)

(* index (1-based here, 0-based in the source) of the closest factor *)
find_closest_scale_factor_index(factor) == ScanClosest(factor, 1, <<1, FloatMax>>)[1]

(* minimal.first starts at 0.f and is overwritten by the first entry scanned *)
find_closest_scale_factor(factor) ==
    LET minimal == ScanClosest(factor, 1, <<0, FloatMax>>)
    IN  IF minimal[1] = 0 THEN 0 ELSE supported_scale_factors[minimal[1]]

(***************************************************************************)
(* Argument values tried by the model.                                     *)
(***************************************************************************)
SizeList == << <<161, 91>>, <<10000, 1>>, <<1920, 1080>>, <<640, 360>>,
               <<100, 100>>, <<1, 10000>>, <<1280, 720>>, <<321, 180>> >>
Sizes == { SizeList[i] : i \in 1..Min2(NumSizes, Len(SizeList)) }

(* set_scale arguments in twelfths: 1.25, 2.5, 1.5, 0.5, 5, 3.5, 2, 3, 4, 1.75 *)
ScaleArgList == <<15, 30, 18, 6, 60, 42, 24, 36, 48, 21>>
ScaleArgs == { ScaleArgList[i] : i \in 1..Min2(NumScaleArgs, Len(ScaleArgList)) }

(* set_strength arguments in hundredths: 0.3, 0.5 *)
StrengthArgs == {30, 50}

(* the engine call that reports non-success when it is issued *)
FailPoints == {"none", "set_strength", "set_input_image", "set_output_image", "load",
               "transfer_input_fp32", "transfer_fp32_source", "run",
               "transfer_destination_u8", "transfer_u8_output"}

(* what a read past the end of supported_scale_factors may yield *)
GarbageScales == {0, 12}

(***************************************************************************)
(* State.                                                                  *)
(*   this : the fields of the superresolution object                       *)
(*   fx   : the state of the engine effect the object sets, loads and runs *)
(*   call : the last public call: its arguments, the steps it issued and   *)
(*          its outcome                                                    *)
(*   failures : the number of engine calls that reported non-success       *)
(*   unloaded : TRUE when a setter changed _strength or _scale, or resize   *)
(*          allocated or resized _source or _destination, and load has not *)
(*          succeeded since                                                *)
(***************************************************************************)
VARIABLES this, fx, call, failures, unloaded
vars == <<this, fx, call, failures, unloaded>>

(* a call in progress: the object, the engine and what the call did so far *)
Machine(t, e) ==
    [this |-> t, fx |-> e, trace |-> <<>>, thrown |-> FALSE,
     retries |-> 0, oob |-> FALSE, at_run |-> Null, ret |-> Null]

Issue(m, step) == [m EXCEPT !.trace = Append(@, step)]

Throw(m) == [m EXCEPT !.thrown = TRUE]

(***************************************************************************)
(* superresolution::size, as resize calls it (line 326): `size` and        *)
(* `input_size` both refer to _cache_input_size and `output_size` refers   *)
(* to _cache_output_size, so every write to a parameter is a write to the  *)
(* cache field.                                                            *)
(***************************************************************************)
MaxSize(scale) ==
    IF scale > 3 * ScaleDen THEN <<960, 540>>
    ELSE IF scale > 2 * ScaleDen THEN <<1280, 720>>
    ELSE <<1920, 1080>>

(* lines 184-201: the input size for a requested size under the bounds *)
CalcInputSize(sz, scale) ==
    LET max == MaxSize(scale)
    IN  IF sz[1] > sz[2]
        THEN LET first == Clamp(sz[1], 160, max[1])
             IN  <<first, Clamp(LRound(first * sz[2], sz[1]), 90, max[2])>>
        ELSE LET second == Clamp(sz[2], 90, max[2])
             IN  <<Clamp(LRound(second * sz[1], sz[2]), 160, max[1]), second>>

(* an output size one pixel larger than the rounded product *)
CalcOutputSize_one_more(in, scale) ==
    <<LRound(in[1] * scale, ScaleDen) + 1, LRound(in[2] * scale, ScaleDen) + 1>>

(* lines 203-205 *)
CalcOutputSize(in, scale) ==
    <<LRound(in[1] * scale, ScaleDen), LRound(in[2] * scale, ScaleDen)>>

(* lines 208-211: both multipliers are close to the scale *)
ValidScale(in, out, scale) ==
    /\ is_close(out[1], in[1], scale, ScaleDen, 1, 100000)
    /\ is_close(out[2], in[2], scale, ScaleDen, 1, 100000)

(* lines 160-161: the cache test; input_size is _cache_input_size itself *)
CacheHit(t) ==
    LET input_size == t._cache_input_size
    IN  /\ input_size[1] = t._cache_input_size[1]
        /\ input_size[2] = t._cache_input_size[2]
        /\ t._scale = t._cache_scale

(* lines 184-205: the sizes written through input_size and output_size *)
Negotiate(m) ==
    [m EXCEPT !.this._cache_input_size = CalcInputSize(@, m.this._scale),
              !.this._cache_output_size =
                  CalcOutputSize(CalcInputSize(m.this._cache_input_size, m.this._scale),
                                 m.this._scale)]

(* line 214: _scale = supported_scale_factors[scale_idx + 1]; a read past the
   end of the list yields any value *)
NextScale(m, scale_idx, garbage) ==
    [m EXCEPT !.this._scale = IF scale_idx + 1 > Len(supported_scale_factors)
                              THEN garbage
                              ELSE supported_scale_factors[scale_idx + 1],
              !.retries = @ + 1,
              !.oob = @ \/ scale_idx + 1 > Len(supported_scale_factors)]

(* lines 219-222 *)
UpdateCache(m) == [m EXCEPT !.this._cache_scale = m.this._scale]

RECURSIVE size(_, _)
RECURSIVE Verify(_, _)
(* lines 207-217 *)
Verify(m, garbage) ==
    IF ValidScale(m.this._cache_input_size, m.this._cache_output_size, m.this._scale)
    THEN m
    ELSE IF find_closest_scale_factor_index(m.this._scale) <= Len(supported_scale_factors)
         THEN size(NextScale(m, find_closest_scale_factor_index(m.this._scale), garbage), garbage)
         ELSE m

size(m, garbage) ==
    IF CacheHit(m.this)
    THEN [m EXCEPT !.this._scale = m.this._cache_scale]
    ELSE UpdateCache(Verify(Negotiate(m), garbage))

(***************************************************************************)
(* Engine calls.  The engine effect (set, load, run) and NvCVImage_Transfer*)
(* are collaborators; a call reports non-success exactly when it is the    *)
(* call named by `fail`.  fx records what the engine was told:             *)
(*   strength      the last strength successfully set                      *)
(*   input_image   TRUE when the input image was set after the last        *)
(*                 allocation or resize of _source (output_image alike)    *)
(*   loaded        TRUE when load succeeded after the last image was set   *)
(***************************************************************************)
Failed(fail, callname) == fail = callname

(* a buffer that is allocated when missing and never resized *)
EnsureBuffer_allocates_only(buf, dims) == IF buf = Null THEN dims ELSE buf

(* a buffer brought to the dimensions dims: resized in place or allocated *)
EnsureBuffer(buf, dims) == IF buf = Null \/ buf # dims THEN dims ELSE buf

(* lines 368-374: the new source is set as the engine's input image *)
SetInputImage(m, fail) ==
    IF Failed(fail, "set_input_image")
    THEN Throw(Issue(m, "set_input_image"))
    ELSE [Issue(m, "set_input_image") EXCEPT !.fx.input_image = TRUE,
                                              !.fx.loaded = FALSE,
                                              !.this._dirty = TRUE]

(* lines 388-394 *)
SetOutputImage(m, fail) ==
    IF Failed(fail, "set_output_image")
    THEN Throw(Issue(m, "set_output_image"))
    ELSE [Issue(m, "set_output_image") EXCEPT !.fx.output_image = TRUE,
                                               !.fx.loaded = FALSE,
                                               !.this._dirty = TRUE]

(* lines 325-326 *)
Requested(m, width, height, garbage) ==
    size([Issue(m, "resize") EXCEPT !.this._cache_input_size = <<width, height>>], garbage)

(* resize that brings _tmp to the output size like the other buffers *)
ResizeInputs_resizes_tmp(m) ==
    [m EXCEPT !.this._tmp = EnsureBuffer(@, m.this._cache_output_size),
              !.this._input = EnsureBuffer(@, m.this._cache_input_size),
              !.this._convert_to_fp32 = EnsureBuffer(@, m.this._cache_input_size)]

(* lines 328-355: _tmp, _input and _convert_to_fp32 *)
ResizeInputs(m) ==
    [m EXCEPT !.this._tmp = IF @ = Null THEN m.this._cache_output_size ELSE @,
              !.this._input = EnsureBuffer(@, m.this._cache_input_size),
              !.this._convert_to_fp32 = EnsureBuffer(@, m.this._cache_input_size)]

(* lines 357-375 *)
ResizeSource(m, fail) ==
    IF m.this._source = Null \/ m.this._source # m.this._cache_input_size
    THEN SetInputImage([m EXCEPT !.this._source = m.this._cache_input_size,
                                 !.fx.input_image = FALSE], fail)
    ELSE m

(* lines 377-395 *)
ResizeDestination(m, fail) ==
    IF m.thrown THEN m
    ELSE IF m.this._destination = Null \/ m.this._destination # m.this._cache_output_size
    THEN SetOutputImage([m EXCEPT !.this._destination = m.this._cache_output_size,
                                  !.fx.output_image = FALSE], fail)
    ELSE m

(* lines 397-417: _convert_to_u8 and _output *)
ResizeOutputs(m) ==
    IF m.thrown THEN m
    ELSE [m EXCEPT !.this._convert_to_u8 = EnsureBuffer(@, m.this._cache_output_size),
                   !.this._output = EnsureBuffer(@, m.this._cache_output_size)]

(* superresolution::resize, lines 320-418 *)
resize(m, width, height, fail, garbage) ==
    ResizeOutputs(ResizeDestination(ResizeSource(
        ResizeInputs(Requested(m, width, height, garbage)), fail), fail))

(* load that clears the dirty flag before it knows the engine's answer *)
load_clears_dirty_first(m, fail) ==
    IF Failed(fail, "load")
    THEN Throw([Issue(m, "load") EXCEPT !.this._dirty = FALSE])
    ELSE [Issue(m, "load") EXCEPT !.fx.loaded = TRUE, !.this._dirty = FALSE]

(* superresolution::load, lines 420-431 *)
load(m, fail) ==
    IF Failed(fail, "load")
    THEN Throw(Issue(m, "load"))
    ELSE [Issue(m, "load") EXCEPT !.fx.loaded = TRUE, !.this._dirty = FALSE]

(* lines 119-126: the binarized strength is set on the engine; a failed set
   is logged and nothing is thrown *)
SetStrengthParameter(m, fail) ==
    IF Failed(fail, "set_strength")
    THEN Issue(m, "set_strength")
    ELSE [Issue(m, "set_strength") EXCEPT
              !.fx.strength = IF m.this._strength * 2 >= StrengthDen THEN 1 ELSE 0]

(* line 112 *)
Binarize(strength) == IF strength * 2 >= StrengthDen THEN StrengthDen ELSE 0

(* set_strength that flags the effect dirty on every call *)
set_strength_always_dirty(m, strength, fail) ==
    SetStrengthParameter([m EXCEPT !.this._strength = Binarize(strength),
                                   !.this._dirty = TRUE], fail)

(* superresolution::set_strength, lines 110-127 *)
set_strength(m, strength, fail) ==
    SetStrengthParameter(
        [m EXCEPT !.this._strength = Binarize(strength),
                  !.this._dirty = @ \/ ~is_close(Binarize(strength), StrengthDen,
                                                 m.this._strength, StrengthDen, 1, 100)],
        fail)

(* lines 142-147 *)
StoreScale(m, factor) ==
    [m EXCEPT !.this._dirty = @ \/ ~is_close(m.this._scale, ScaleDen, factor, ScaleDen, 1, 100),
              !.this._scale = factor]

(* superresolution::set_scale, lines 134-148 *)
set_scale(m, scale) ==
    StoreScale(m, find_closest_scale_factor(Clamp(scale, 1 * ScaleDen, 4 * ScaleDen)))

(* a transfer whose status is not looked at *)
Transfer_ignores_status(m, step, fail) ==
    IF m.thrown THEN m ELSE Issue(m, step)

(* one NvCVImage_Transfer step of process *)
Transfer(m, step, fail) ==
    IF m.thrown THEN m
    ELSE IF Failed(fail, step) THEN Throw(Issue(m, step))
    ELSE Issue(m, step)

(* a run that releases the output texture when it fails *)
Run_drops_output(m, fail) ==
    IF m.thrown THEN m
    ELSE IF Failed(fail, "run")
    THEN Throw([Issue(m, "run") EXCEPT !.at_run = m.this, !.this._output = Null])
    ELSE [Issue(m, "run") EXCEPT !.at_run = m.this]

(* lines 278-286 *)
Run(m, fail) ==
    IF m.thrown THEN m
    ELSE IF Failed(fail, "run")
    THEN Throw([Issue(m, "run") EXCEPT !.at_run = m.this])
    ELSE [Issue(m, "run") EXCEPT !.at_run = m.this]

(* process that reloads the effect on every frame *)
LoadIfDirty_always(m, fail) ==
    IF m.thrown THEN m ELSE load(m, fail)

(* lines 239-242 *)
LoadIfDirty(m, fail) ==
    IF m.thrown THEN m
    ELSE IF m.this._dirty THEN load(m, fail) ELSE m

(* lines 244-249 *)
CopyIn(m) == IF m.thrown THEN m ELSE Issue(m, "copy_in")

(* lines 316-317 *)
Return(m) ==
    IF m.thrown THEN m
    ELSE [Issue(m, "return") EXCEPT !.ret = m.this._output]

(* process with the run issued before the transfer into the engine source *)
process_run_early(m, in, fail, garbage) ==
    Return(
    Transfer(
    Transfer(
    Transfer(
    Run(
    Transfer(
    CopyIn(
    LoadIfDirty(
    resize(m, in[1], in[2], fail, garbage), fail)),
    "transfer_input_fp32", fail),
    fail),
    "transfer_fp32_source", fail),
    "transfer_destination_u8", fail),
    "transfer_u8_output", fail))

(* superresolution::process, lines 225-318 *)
process(m, in, fail, garbage) ==
    Return(
    Transfer(
    Transfer(
    Run(
    Transfer(
    Transfer(
    CopyIn(
    LoadIfDirty(
    resize(m, in[1], in[2], fail, garbage), fail)),
    "transfer_input_fp32", fail),
    "transfer_fp32_source", fail),
    fail),
    "transfer_destination_u8", fail),
    "transfer_u8_output", fail))

(***************************************************************************)
(* The constructor, lines 92-108, with every engine call succeeding.       *)
(***************************************************************************)
Members ==
    [_dirty |-> TRUE, _input |-> Null, _convert_to_fp32 |-> Null, _source |-> Null,
     _destination |-> Null, _convert_to_u8 |-> Null, _output |-> Null, _tmp |-> Null,
     _strength |-> 1 * StrengthDen, _scale |-> 18,
     _cache_input_size |-> <<0, 0>>, _cache_output_size |-> <<0, 0>>, _cache_scale |-> 0]

Unset == [strength |-> 0, input_image |-> FALSE, output_image |-> FALSE, loaded |-> FALSE]

Constructed ==
    load(resize(set_scale(set_strength(Machine(Members, Unset), Members._strength, "none"),
                          Members._scale),
                160, 90, "none", 0),
         "none")

Outcome(op, arg, fail, m) ==
    [op |-> op, arg |-> arg, fail |-> fail, trace |-> m.trace, thrown |-> m.thrown,
     retries |-> m.retries, oob |-> m.oob, at_run |-> m.at_run, ret |-> m.ret]

Init ==
    /\ this = Constructed.this
    /\ fx = Constructed.fx
    /\ call = Outcome("construct", Null, "none", Constructed)
    /\ failures = 0
    /\ unloaded = FALSE

(* the engine calls that may still report non-success *)
MayFail(points) == IF failures < MaxFailures THEN points \cup {"none"} ELSE {"none"}

(* the call made a change that the engine has to load: a setter stored a
   different strength or scale (lines 116-117, 143-144), or resize brought
   _source or _destination to other dimensions (lines 357-366, 377-386) *)
Changed(op, m) ==
    \/ op = "set_strength" /\ m.this._strength # this._strength
    \/ op = "set_scale" /\ m.this._scale # this._scale
    \/ op \in {"resize", "process"} /\ m.this._source # this._source
    \/ op \in {"resize", "process"} /\ m.this._destination # this._destination

(* load was issued and reported success (lines 424-430); in process it comes
   after resize *)
Loaded(fail, m) ==
    \E i \in 1..Len(m.trace) : m.trace[i] = "load" /\ ~(fail = "load" /\ m.thrown)

Commit(op, arg, fail, m) ==
    /\ unloaded' = IF Loaded(fail, m) THEN FALSE ELSE unloaded \/ Changed(op, m)
    /\ failures' = IF fail # "none" /\ fail = m.trace[Len(m.trace)] THEN failures + 1 ELSE failures
    /\ this' = m.this
    /\ fx' = m.fx
    /\ call' = Outcome(op, arg, fail, m)

SetStrength ==
    \E x \in StrengthArgs, fail \in MayFail({"set_strength"}) :
        Commit("set_strength", x, fail, set_strength(Machine(this, fx), x, fail))

SetScale ==
    \E x \in ScaleArgs :
        Commit("set_scale", x, "none", set_scale(Machine(this, fx), x))

Resize ==
    \E sz \in Sizes, fail \in MayFail({"set_input_image", "set_output_image"}),
       garbage \in GarbageScales :
        Commit("resize", sz, fail, resize(Machine(this, fx), sz[1], sz[2], fail, garbage))

Process ==
    \E in \in Sizes, fail \in MayFail(FailPoints \ {"set_strength"}), garbage \in GarbageScales :
        Commit("process", in, fail, process(Machine(this, fx), in, fail, garbage))

Next == SetStrength \/ SetScale \/ Resize \/ Process

Spec == Init /\ [][Next]_vars

(***************************************************************************)
(* The negotiation alone: set_scale and resize with every listed argument  *)
(* and every engine call succeeding.                                       *)
(***************************************************************************)
AllSizes == { SizeList[i] : i \in 1..Len(SizeList) }

AllScaleArgs == { ScaleArgList[i] : i \in 1..Len(ScaleArgList) }

SetAnyScale ==
    \E x \in AllScaleArgs :
        Commit("set_scale", x, "none", set_scale(Machine(this, fx), x))

ResizeAny ==
    \E sz \in AllSizes, garbage \in GarbageScales :
        Commit("resize", sz, "none", resize(Machine(this, fx), sz[1], sz[2], "none", garbage))

SizingNext == SetAnyScale \/ ResizeAny

SizingSpec == Init /\ [][SizingNext]_vars

(***************************************************************************)
(* Properties.                                                             *)
(***************************************************************************)
Last(seq) == seq[Len(seq)]

(* the last call ran resize to its end: neither image set failed *)
ResizeCompleted ==
    /\ call.op \in {"resize", "process"}
    /\ ~(call.thrown /\ Last(call.trace) \in {"set_input_image", "set_output_image"})

(* the last call was a process that returned a texture *)
ProcessReturned == call.op = "process" /\ ~call.thrown

(* C1: a successful process(in) returns a texture whose dimensions are the
   output size negotiated for the dimensions of `in` at the current scale:
   round(input * scale) per axis, input being the size of `in` clamped into
   the bounds with its aspect ratio kept. *)
C1_OutputIsNegotiatedSize ==
    ProcessReturned =>
        call.ret = CalcOutputSize(CalcInputSize(call.arg, this._scale), this._scale)

(* C2: after every completed resize the stored sizing has output/input equal
   to the stored scale within 1e-5 on both axes. *)
C2_RatioIsScale ==
    ResizeCompleted =>
        /\ Abs(this._cache_output_size[1] * ScaleDen - this._scale * this._cache_input_size[1]) * 100000
               <= ScaleDen * this._cache_input_size[1]
        /\ Abs(this._cache_output_size[2] * ScaleDen - this._scale * this._cache_input_size[2]) * 100000
               <= ScaleDen * this._cache_input_size[2]

(* C3: after every completed resize the negotiated input size lies between
   160x90 and the maximum of the stored scale (960x540 above 3, 1280x720
   above 2, 1920x1080 otherwise). *)
C3_InputWithinBounds ==
    ResizeCompleted =>
        LET maxw == IF this._scale > 36 THEN 960 ELSE IF this._scale > 24 THEN 1280 ELSE 1920
            maxh == IF this._scale > 36 THEN 540 ELSE IF this._scale > 24 THEN 720 ELSE 1080
        IN  /\ 160 <= this._cache_input_size[1] /\ this._cache_input_size[1] <= maxw
            /\ 90 <= this._cache_input_size[2] /\ this._cache_input_size[2] <= maxh

(* C4: resize called twice in a row with the same requested size and the
   same scale leaves, after the second call, the input size, output size and
   scale that the first call left. *)
C4_ResizeIdempotent ==
    [][(/\ call.op = "resize" /\ ~call.thrown /\ call.retries = 0
        /\ call'.op = "resize" /\ ~call'.thrown /\ call'.arg = call.arg)
       => (/\ this'._cache_input_size = this._cache_input_size
           /\ this'._cache_output_size = this._cache_output_size
           /\ this'._scale = this._scale
           /\ this'._cache_scale = this._cache_scale)]_vars

(* member f of the supported list is closest to x, the earlier member winning a tie *)
ClosestEarliest(f, x) ==
    \E i \in 1..Len(supported_scale_factors) :
        /\ supported_scale_factors[i] = f
        /\ \A j \in 1..Len(supported_scale_factors) :
              /\ j < i => Abs(supported_scale_factors[j] - x) > Abs(f - x)
              /\ j > i => Abs(supported_scale_factors[j] - x) >= Abs(f - x)

(* C5: after set_scale(x) the scale is the supported factor closest to
   clamp(x, 1, 4), the earlier one on a tie; a resize or process that follows
   and triggers no retry leaves the scale at that factor. *)
C5_ScaleSnapsToClosest ==
    /\ [](call.op = "set_scale" =>
              ClosestEarliest(this._scale, Clamp(call.arg, 1 * ScaleDen, 4 * ScaleDen)))
    /\ [][(/\ call.op = "set_scale"
           /\ call'.op \in {"resize", "process"}
           /\ call'.retries = 0)
          => (/\ this'._scale = this._scale
              /\ ClosestEarliest(this'._scale, Clamp(call.arg, 1 * ScaleDen, 4 * ScaleDen)))]_vars

(* set_scale(2.5) was called and the scale is 2 *)
C5_Witness == call.op = "set_scale" /\ call.arg = 30 /\ this._scale = 24

(* the value the claim has set_strength store for the argument x (hundredths):
   1.0 from 0.5 on, else 0.0 *)
Binarized(x) == IF x < 50 THEN 0 ELSE 100

(* C6: set_strength stores the binarized argument (0.0 for 0.3); a
   set_strength whose binarized argument is the stored strength leaves a
   false dirty flag false. *)
C6_StrengthBinarized ==
    /\ [](call.op = "set_strength" => this._strength = Binarized(call.arg))
    /\ [][(/\ call'.op = "set_strength"
           /\ Binarized(call'.arg) = this._strength
           /\ ~this._dirty)
          => ~this'._dirty]_vars

(* set_strength(0.3) was called on a clean object whose strength was already 0.0 *)
C6_Witness ==
    call.op = "set_strength" /\ call.arg = 30 /\ this._strength = 0 /\ ~this._dirty

Buffers(t) ==
    <<t._input, t._convert_to_fp32, t._source, t._destination, t._convert_to_u8,
      t._output, t._tmp>>

(* the last call was a process whose run reported non-success *)
RunFailed == call.op = "process" /\ call.fail = "run" /\ call.at_run # Null

(* C7: when run reports non-success, process throws and returns no texture,
   the seven buffers exist with the dimensions they had when run was invoked,
   the cached sizing is unchanged, and the next process of the same input in
   which every engine call succeeds returns the output texture. *)
C7_RunFailureKeepsState ==
    /\ [](RunFailed =>
            /\ call.thrown /\ call.ret = Null
            /\ \A i \in 1..7 : Buffers(this)[i] # Null
            /\ Buffers(this) = Buffers(call.at_run)
            /\ this._cache_input_size = call.at_run._cache_input_size
            /\ this._cache_output_size = call.at_run._cache_output_size
            /\ this._cache_scale = call.at_run._cache_scale)
    /\ [][(/\ RunFailed
           /\ call'.op = "process" /\ call'.arg = call.arg /\ call'.fail = "none")
          => (/\ ~call'.thrown
              /\ Last(call'.trace) = "return"
              /\ call'.ret # Null
              /\ call'.ret = this'._output)]_vars

C7_Witness == RunFailed /\ call.thrown

Count(seq, x) == Cardinality({i \in 1..Len(seq) : seq[i] = x})

AbortingSteps ==
    {"transfer_input_fp32", "transfer_fp32_source", "run",
     "transfer_destination_u8", "transfer_u8_output"}

(* C8: in process, non-success of a transfer or of run ends the call there
   with an error: the failed step is the last step issued, it was issued
   once, and no texture is returned. *)
C8_FailureAbortsProcess ==
    (call.op = "process" /\ call.fail \in AbortingSteps) =>
        /\ call.thrown
        /\ Last(call.trace) = call.fail
        /\ Count(call.trace, call.fail) = 1
        /\ call.ret = Null

C8_Witness ==
    call.op = "process" /\ call.fail = "transfer_destination_u8" /\ call.thrown

(* C9: an engine call that reports non-success in a public operation aborts
   the operation with an error, set-parameter calls included. *)
C9_EveryFailureIsRaised ==
    (call.fail # "none" /\ Count(call.trace, call.fail) > 0) => call.thrown

RECURSIVE Without(_, _)
Without(seq, drop) ==
    IF seq = <<>> THEN <<>>
    ELSE IF Head(seq) \in drop THEN Without(Tail(seq), drop)
    ELSE <<Head(seq)>> \o Without(Tail(seq), drop)

IsPrefix(p, q) == Len(p) <= Len(q) /\ SubSeq(q, 1, Len(p)) = p

StepOrder ==
    <<"resize", "load", "copy_in", "transfer_input_fp32", "transfer_fp32_source", "run",
      "transfer_destination_u8", "transfer_u8_output", "return">>

(* C10: the steps of a process call are issued in the fixed order resize,
   load (when dirty), copy-in, transfer to float, transfer to source, run,
   transfer to uint8, transfer to output, return; a step is issued only when
   every earlier step of the call succeeded, and the texture is returned only
   by the last step. *)
C10_StepsInOrder ==
    call.op = "process" =>
        LET steps == Without(call.trace, {"set_input_image", "set_output_image"})
        IN  /\ \/ IsPrefix(steps, StepOrder)
               \/ IsPrefix(steps, Without(StepOrder, {"load"}))
            /\ call.thrown => Last(call.trace) = call.fail
            /\ ~call.thrown => Last(steps) = "return"
            /\ call.ret # Null <=> Last(steps) = "return"

(* a process that reloaded the engine and ran to its end *)
C10_Witness ==
    call.op = "process" /\ ~call.thrown /\ Count(call.trace, "load") = 1 /\ call.ret # Null

(* the call named step was issued by the call c and reported success *)
Succeeded(c, step) ==
    Count(c.trace, step) > 0 /\ ~(c.thrown /\ Last(c.trace) = step /\ c.fail = step)

(* the resize of the call c ran to its end *)
ResizeDone(c) ==
    /\ c.op \in {"resize", "process"}
    /\ ~(c.thrown /\ Last(c.trace) \in {"set_input_image", "set_output_image"})

(* C11: process invokes load exactly when dirty is true after its resize
   step (dirty before the call, or set by an image set of that resize); a
   successful load leaves dirty false; dirty goes from true to false only in
   a call whose load succeeded. *)
C11_DirtyStateMachine ==
    [][/\ (call'.op = "process" /\ ResizeDone(call'))
            => (Count(call'.trace, "load") = 1
                  <=> (\/ this._dirty
                       \/ Succeeded(call', "set_input_image")
                       \/ Succeeded(call', "set_output_image")))
       /\ (call'.op = "process" /\ Succeeded(call', "load")) => ~this'._dirty
       /\ (this._dirty /\ ~this'._dirty) => Succeeded(call', "load")
       /\ (call'.op = "process" /\ Count(call'.trace, "load") = 0 /\ ResizeDone(call'))
            => this'._dirty = this._dirty]_vars

(* a process that found the effect clean and ran without a reload *)
C11_Witness ==
    call.op = "process" /\ ~call.thrown /\ Count(call.trace, "load") = 0 /\ ~this._dirty

(* the sizing kept by the object *)
Sizing(t) == <<t._cache_input_size, t._cache_output_size, t._cache_scale>>

(* C12: set_scale changes only the scale and the dirty flag, leaving the
   seven buffers and the cached sizing as they were; the process that
   follows a set_scale which changed the scale brings the output-sized
   buffers to the output size negotiated under the new scale. *)
C12_SetScaleIsLazy ==
    [][/\ call'.op = "set_scale"
            => (Buffers(this') = Buffers(this) /\ Sizing(this') = Sizing(this)
                /\ this'._strength = this._strength /\ fx' = fx)
       /\ (/\ call.op = "set_scale" /\ this._scale # this._cache_scale
           /\ call'.op = "process" /\ ResizeDone(call'))
            => (/\ this'._destination =
                       CalcOutputSize(CalcInputSize(call'.arg, this'._scale), this'._scale)
                /\ this'._convert_to_u8 = this'._destination
                /\ this'._output = this'._destination)]_vars

(* C13: after a resize that completed, the raw-input texture, the float
   conversion buffer and the engine source exist with the negotiated input
   size, and the engine destination, the uint8 conversion buffer and the
   output texture exist with the negotiated output size. *)
C13_BuffersMatchSizing ==
    ResizeCompleted =>
        /\ this._input = this._cache_input_size
        /\ this._convert_to_fp32 = this._cache_input_size
        /\ this._source = this._cache_input_size
        /\ this._destination = this._cache_output_size
        /\ this._convert_to_u8 = this._cache_output_size
        /\ this._output = this._cache_output_size

(* a resize that completed and changed both the input and the output size *)
C13_Witness ==
    /\ ResizeCompleted
    /\ this._cache_input_size # <<160, 90>>
    /\ this._cache_output_size # <<240, 135>>

(* C14: the scratch buffer has the output size negotiated by the
   constructor's resize(160, 90) and no later call changes it, whatever
   output size is negotiated later. *)
C14_ScratchAllocatedOnce ==
    /\ [](this._tmp = CalcOutputSize(CalcInputSize(<<160, 90>>, 18), 18))
    /\ [][this'._tmp = this._tmp]_vars

(* a later resize negotiated an output size other than that of the scratch buffer *)
C14_Witness ==
    /\ ResizeCompleted
    /\ this._cache_output_size # this._tmp
    /\ this._output # this._tmp

(* the last call was a process that invoked the engine run *)
RunInvoked == call.op = "process" /\ call.at_run # Null

(* C15: whenever process invokes run, the input image and the output image
   were set on the engine after the last allocation or resize of _source and
   of _destination, and the engine was loaded after they were set. *)
C15_RunSeesBoundBuffers ==
    RunInvoked => (fx.input_image /\ fx.output_image /\ fx.loaded)

(* the ratio check of size passes for the requested size sz at the factor f *)
ValidAt(sz, f) ==
    ValidScale(CalcInputSize(sz, f), CalcOutputSize(CalcInputSize(sz, f), f), f)

(* the smallest supported factor not below `from` at which the check passes *)
SmallestValid(sz, from) ==
    CHOOSE f \in {supported_scale_factors[i] : i \in 1..Len(supported_scale_factors)} :
        /\ f >= from /\ ValidAt(sz, f)
        /\ \A i \in 1..Len(supported_scale_factors) :
              (supported_scale_factors[i] >= from /\ ValidAt(sz, supported_scale_factors[i]))
                  => f <= supported_scale_factors[i]

(* C16: when the ratio check fails, size goes on with the next-larger
   supported factor; the input size, output size and scale it stores are
   those computed under the factor it ends with, which is the smallest
   supported factor not below the scale set before the call at which the
   check passes. *)
C16_RetryStoresNewScale ==
    [][(call'.op \in {"resize", "process"} /\ ResizeDone(call') /\ call'.retries > 0)
       => (/\ this'._cache_input_size = CalcInputSize(call'.arg, this'._scale)
           /\ this'._cache_output_size =
                  CalcOutputSize(CalcInputSize(call'.arg, this'._scale), this'._scale)
           /\ this'._cache_scale = this'._scale
           /\ this'._scale = SmallestValid(call'.arg, this._scale))]_vars

SupportedSet == {supported_scale_factors[i] : i \in 1..Len(supported_scale_factors)}

(* C17: the retry of size never reads supported_scale_factors past its last
   entry: the ratio check fails only at the factors 4/3 and 1.5, never at 2,
   3 or 4. *)
C17_NoReadPastEnd ==
    /\ [](~call.oob)
    /\ [][(call'.op = "resize" /\ call'.retries > 0) => this._scale \in {16, 18}]_vars
    /\ [][(call'.op = "resize" /\ this._scale \in {24, 36, 48})
              => (call'.retries = 0 /\ this'._scale = this._scale)]_vars

(* a negotiation carried out at the last factor, 4, for an input clamped to 960x540 *)
C17_Witness ==
    /\ call.op = "resize" /\ call.retries = 0
    /\ this._scale = 48 /\ this._cache_scale = 48
    /\ this._cache_input_size = <<960, 540>>
    /\ this._cache_output_size = <<3840, 2160>>

(* C18: size returns after at most two retries and leaves a scale of the
   supported set stored. *)
C18_AtMostTwoRetries ==
    /\ call.retries <= 2
    /\ this._scale \in SupportedSet
    /\ call.op = "resize" => this._cache_scale = this._scale

(* a negotiation that went from 4/3 over 1.5 to 2 *)
C18_Witness == call.op = "resize" /\ call.retries = 2 /\ this._scale = 24

(* C19: run is never invoked while _dirty is true, and never while a change
   of strength or scale made by a setter, or an allocation or resize of
   _source or _destination, is still waiting for a successful load. *)
C19_LoadBeforeRun ==
    RunInvoked => (~call.at_run._dirty /\ ~unloaded)

(* the call c is a process whose load reported non-success *)
LoadFailed(c) == c.op = "process" /\ c.fail = "load" /\ c.thrown

(* the position of the first step named step in seq, 0 when there is none *)
IndexOf(seq, step) ==
    IF Count(seq, step) = 0 THEN 0
    ELSE CHOOSE i \in 1..Len(seq) : seq[i] = step /\ \A j \in 1..(i - 1) : seq[j] # step

(* C20: a process whose load reports non-success stops at the load, before
   the copy-in, the transfers and the run, and leaves _dirty true; the next
   process call issues load again, before its run. *)
C20_FailedLoadIsRetried ==
    /\ [](LoadFailed(call) =>
            /\ Last(call.trace) = "load"
            /\ Count(call.trace, "load") = 1
            /\ Count(call.trace, "copy_in") = 0
            /\ \A s \in AbortingSteps : Count(call.trace, s) = 0
            /\ call.at_run = Null /\ call.ret = Null
            /\ this._dirty)
    /\ [][(LoadFailed(call) /\ call'.op = "process" /\ ResizeDone(call')) =>
            /\ Count(call'.trace, "load") = 1
            /\ Count(call'.trace, "run") > 0
                   => IndexOf(call'.trace, "load") < IndexOf(call'.trace, "run")]_vars

C20_Witness == LoadFailed(call) /\ this._dirty /\ failures = 1

====
